---- MODULE Spec2Model ----
(***************************************************************************)
(* A model of the hybrid retrieval and indexing core of babycare_rag:      *)
(* DocumentProcessor (chunking, metadata.json read-modify-write),          *)
(* SearchEngine (index load, BM25, vector search, RRF, search, rebuild)    *)
(* and the BabyCareRAG facade (add / remove / rebuild / search).           *)
(*                                                                         *)
(* Text is a sequence of one-character strings.  Scores are pairs          *)
(* <<numerator, denominator>> with a positive denominator, compared by     *)
(* cross-multiplication; math.log is a fixed-point table.                  *)
(***************************************************************************)
EXTENDS Integers, Sequences, FiniteSets, TLC

----------------------------------------------------------------------------
(* Bounds of the model *)

\* ingest is explored only while the persisted chunk sequence stays this short
MaxChunks == 3

\* the longest content given to the chunker when it is followed on its own
MaxContentLen == 5

\* the chunker's loop is followed for at most this many windows
MaxWindows == 6

----------------------------------------------------------------------------
(* Configuration (RAGConfig fields, set to small values) *)

\* RAGConfig.chunk_size (default 1000), configured small
chunk_size == 4

\* RAGConfig.chunk_overlap (default 200), configured small
chunk_overlap == 1

\* RAGConfig.search_top_k (default 20): the pre-fusion candidate width
search_top_k == 3

\* the literal 100 of the backward sentence search in _chunk_document
SnapWindow == 100

\* the default k of _reciprocal_rank_fusion
RRF_K == 60

----------------------------------------------------------------------------
(* Characters and text *)

WordChars == {"a", "b", "c", "A"}

SpaceChars == {" "}

SentenceEnds == {".", "!", "?"}

Min(x, y) == IF x < y THEN x ELSE y

Max(x, y) == IF x > y THEN x ELSE y

\* str.lower() on one character
LowerChar(c) == IF c = "A" THEN "a" ELSE c

\* str.lower()
Lower(s) == [i \in 1..Len(s) |-> LowerChar(s[i])]

\* a Python slice bound: a negative one counts from the end, then it is
\* clipped to 0..len
SliceBound(i, len) == IF i < 0 THEN Max(i + len, 0) ELSE Min(i, len)

\* Python slice s[from:to] with 0-based from and exclusive to
Slice(s, from, to) ==
    LET lo == SliceBound(from, Len(s))
        hi == SliceBound(to, Len(s))
    IN  IF lo >= hi THEN <<>> ELSE SubSeq(s, lo + 1, hi)

\* whether s[i] raises IndexError
IndexError(s, i) == i >= Len(s) \/ i < -Len(s)

\* s[i] with a 0-based i; a negative i counts from the end
At(s, i) == IF i < 0 THEN s[Len(s) + i + 1] ELSE s[i + 1]

RECURSIVE LStrip(_)
LStrip(s) ==
    IF s # <<>> /\ Head(s) \in SpaceChars THEN LStrip(Tail(s)) ELSE s

RECURSIVE RStrip(_)
RStrip(s) ==
    IF s # <<>> /\ s[Len(s)] \in SpaceChars
    THEN RStrip(SubSeq(s, 1, Len(s) - 1))
    ELSE s

\* str.strip()
Strip(s) == RStrip(LStrip(s))

\* re.findall(r'\b\w+\b', s): the maximal runs of word characters, in order
RECURSIVE FindWords(_, _, _)
FindWords(s, cur, acc) ==
    IF s = <<>>
    THEN IF cur = <<>> THEN acc ELSE Append(acc, cur)
    ELSE IF Head(s) \in WordChars
         THEN FindWords(Tail(s), Append(cur, Head(s)), acc)
         ELSE FindWords(Tail(s), <<>>,
                        IF cur = <<>> THEN acc ELSE Append(acc, cur))

Words(s) == FindWords(s, <<>>, <<>>)

\* list.count(x)
Count(seq, x) == Cardinality({i \in 1..Len(seq) : seq[i] = x})

\* " ".join(words)
RECURSIVE Join(_)
Join(ws) ==
    IF ws = <<>> THEN <<>>
    ELSE IF Len(ws) = 1 THEN ws[1]
    ELSE ws[1] \o <<" ">> \o Join(Tail(ws))

\* dict.get(key, default)
Get(rec, key, default) == IF key \in DOMAIN rec THEN rec[key] ELSE default

\* Python truthiness of "x or y" for text values
OrElse(x, y) == IF x # <<>> THEN x ELSE y

----------------------------------------------------------------------------
(* DocumentProcessor._chunk_document *)

\* the backward scan "for i in range(end, search_start, -1)": sentence_end is
\* i + 1 for the first i, going down from end to search_start + 1, with
\* content[i] in '.!?', and -1 when there is none; content[i] may raise
RECURSIVE SentenceScan(_, _, _)
SentenceScan(content, i, search_start) ==
    IF i <= search_start THEN [raised |-> FALSE, sentence_end |-> -1]
    ELSE IF IndexError(content, i) THEN [raised |-> TRUE, sentence_end |-> -1]
    ELSE IF At(content, i) \in SentenceEnds
         THEN [raised |-> FALSE, sentence_end |-> i + 1]
    ELSE SentenceScan(content, i - 1, search_start)

\* the window end chosen for a window starting at start: [raised, end]
WindowEnd(content, start, size) ==
    LET end == start + size
    IN  IF end < Len(content)
        THEN LET search_start == Max(start, end - SnapWindow)
                 scan == SentenceScan(content, end, search_start)
             IN  [raised |-> scan.raised,
                  end |-> IF scan.sentence_end > 0 THEN scan.sentence_end ELSE end]
        ELSE [raised |-> FALSE, end |-> end]

\* the dict appended for one non-empty window
MakeChunk(doc_id, ordinal, text, start, end) ==
    [id |-> <<doc_id, ordinal>>, doc_id |-> doc_id, chunk_id |-> ordinal,
     text |-> text, start_pos |-> start, end_pos |-> end]

\* a variant of ChunkIter in which a window that is empty after trimming
\* still consumes an ordinal
ChunkIter_counting(content, doc_id, size, overlap, start, ordinal, chunks) ==
    LET w == WindowEnd(content, start, size)
        chunk_text == Strip(Slice(content, start, w.end))
    IN  [raised |-> w.raised,
         start |-> IF w.end < Len(content) THEN w.end - overlap ELSE w.end,
         ordinal |-> ordinal + 1,
         chunks |-> IF chunk_text # <<>>
                    THEN Append(chunks,
                                MakeChunk(doc_id, ordinal, chunk_text, start, w.end))
                    ELSE chunks]

\* one iteration of the while loop of _chunk_document, entered with
\* start < len(content): [raised, start, ordinal, chunks] afterwards
ChunkIter(content, doc_id, size, overlap, start, ordinal, chunks) ==
    LET w == WindowEnd(content, start, size)
        chunk_text == Strip(Slice(content, start, w.end))
        emitted == chunk_text # <<>>
    IN  [raised |-> w.raised,
         start |-> IF w.end < Len(content) THEN w.end - overlap ELSE w.end,
         ordinal |-> IF emitted THEN ordinal + 1 ELSE ordinal,
         chunks |-> IF emitted
                    THEN Append(chunks,
                                MakeChunk(doc_id, ordinal, chunk_text, start, w.end))
                    ELSE chunks]

\* the while loop of _chunk_document, for a configuration and a content on
\* which it ends
RECURSIVE ChunkLoop(_, _, _, _, _, _, _)
ChunkLoop(content, doc_id, size, overlap, start, ordinal, chunks) ==
    IF ~(start < Len(content)) THEN chunks
    ELSE LET it == ChunkIter(content, doc_id, size, overlap, start, ordinal, chunks)
         IN  ChunkLoop(content, doc_id, size, overlap, it.start, it.ordinal,
                       it.chunks)

chunk_document(content, doc_id) ==
    ChunkLoop(content, doc_id, chunk_size, chunk_overlap, 0, 0, <<>>)

----------------------------------------------------------------------------
(* Files *)

\* a path at which no file exists
NoFile == [kind |-> "absent"]

\* a name of documents_dir at which no file exists
Absent == [present |-> FALSE, content |-> <<>>]

\* a file of documents_dir
File(content) == [present |-> TRUE, content |-> content]

\* json.load raises on this content
Malformed == [kind |-> "malformed"]

\* a metadata.json in the canonical shape {documents, chunks}
DictFile(documents, chunks) ==
    [kind |-> "dict", documents |-> documents, chunks |-> chunks]

\* a metadata.json in the legacy shape: a bare array of chunks
ListFile(chunks) == [kind |-> "list", chunks |-> chunks]

\* the empty dict {}
EmptyMap == [d \in {} |-> TRUE]

\* hashlib.md5(str(file_path)).hexdigest(), one id per path of documents_dir
DocIdOf == [f \in {"h1_t1.txt", "n1.txt"} |->
                IF f = "h1_t1.txt" THEN "d1" ELSE "d2"]

\* add_document_from_text: f"{md5(title)[:8]}_{title[:50]}.txt", cleaned
TextFileName(title) == "h1_t1.txt"

\* file_path.stem
Stem(name) == IF name = "h1_t1.txt" THEN "h1_t1" ELSE "n1"

\* DocumentInfo(...).model_dump(); added_date (the file's mtime) is left out
DocumentInfo(doc_id, title, file_path, chunk_count, file_size) ==
    [doc_id |-> doc_id, title |-> title, file_path |-> file_path,
     chunk_count |-> chunk_count, file_size |-> file_size, doc_type |-> ".txt"]

----------------------------------------------------------------------------
(* DocumentProcessor *)

\* a variant of update_metadata that puts the new chunks first
update_metadata_prepend(doc_info, chunks, meta) ==
    IF meta.kind = "absent"
    THEN [raised |-> FALSE,
          meta |-> DictFile((doc_info.doc_id :> doc_info), chunks)]
    ELSE IF meta.kind \in {"malformed", "list"}
    THEN [raised |-> TRUE, meta |-> meta]
    ELSE [raised |-> FALSE,
          meta |-> DictFile((doc_info.doc_id :> doc_info) @@ meta.documents,
                            chunks \o meta.chunks)]

\* _update_metadata: the outcome is [raised, meta]; meta is the file afterwards
update_metadata(doc_info, chunks, meta) ==
    IF meta.kind = "absent"
    THEN [raised |-> FALSE,
          meta |-> DictFile((doc_info.doc_id :> doc_info), chunks)]
    ELSE IF meta.kind = "malformed"
    THEN [raised |-> TRUE, meta |-> meta]          \* json.load raises
    ELSE IF meta.kind = "list"
    THEN [raised |-> TRUE, meta |-> meta]          \* list['documents']: TypeError
    ELSE [raised |-> FALSE,
          meta |-> DictFile((doc_info.doc_id :> doc_info) @@ meta.documents,
                            meta.chunks \o chunks)]

\* a variant of process_single_document that tests for empty content only
\* after the metadata was written
process_single_document_late_check(name, content, title, meta) ==
    LET doc_id == DocIdOf[name]
        chunks == chunk_document(content, doc_id)
        doc_info == DocumentInfo(doc_id, title, name, Len(chunks), Len(content))
        upd == update_metadata(doc_info, chunks, meta)
    IN  [ok |-> ~upd.raised /\ Strip(content) # <<>>, meta |-> upd.meta]

\* _process_single_document on a file of documents_dir holding content;
\* MarkItDown's conversion of a plain text file yields its content
process_single_document(name, content, title, meta) ==
    IF Strip(content) = <<>>
    THEN [ok |-> FALSE, meta |-> meta]
    ELSE LET doc_id == DocIdOf[name]
             chunks == chunk_document(content, doc_id)
             doc_info == DocumentInfo(doc_id, title, name, Len(chunks), Len(content))
             upd == update_metadata(doc_info, chunks, meta)
         IN  [ok |-> ~upd.raised, meta |-> upd.meta]

\* a variant of KeepOthers that drops only the first chunk of the document
RECURSIVE KeepOthers_first(_, _)
KeepOthers_first(chunks, doc_id) ==
    IF chunks = <<>> THEN <<>>
    ELSE IF Get(Head(chunks), "doc_id", "none") # doc_id
         THEN <<Head(chunks)>> \o KeepOthers_first(Tail(chunks), doc_id)
         ELSE Tail(chunks)

\* the list comprehension of remove_document
RECURSIVE KeepOthers(_, _)
KeepOthers(chunks, doc_id) ==
    IF chunks = <<>> THEN <<>>
    ELSE IF Get(Head(chunks), "doc_id", "none") # doc_id
         THEN <<Head(chunks)>> \o KeepOthers(Tail(chunks), doc_id)
         ELSE KeepOthers(Tail(chunks), doc_id)

\* DocumentProcessor.remove_document: [ok, meta, files]
dp_remove_document(doc_id, meta, files) ==
    IF meta.kind = "absent" THEN [ok |-> FALSE, meta |-> meta, files |-> files]
    ELSE IF meta.kind = "malformed" THEN [ok |-> FALSE, meta |-> meta, files |-> files]
    ELSE IF meta.kind = "list" THEN [ok |-> FALSE, meta |-> meta, files |-> files]
    ELSE IF doc_id \notin DOMAIN meta.documents
    THEN [ok |-> FALSE, meta |-> meta, files |-> files]
    ELSE LET doc_info == meta.documents[doc_id]
             documents == [d \in (DOMAIN meta.documents) \ {doc_id} |->
                              meta.documents[d]]
         IN  [ok |-> TRUE,
              meta |-> DictFile(documents, KeepOthers(meta.chunks, doc_id)),
              files |-> [files EXCEPT ![doc_info.file_path] = Absent]]

\* DocumentProcessor.list_documents
list_documents(meta) ==
    IF meta.kind # "dict" THEN {}
    ELSE {meta.documents[d] : d \in DOMAIN meta.documents}

----------------------------------------------------------------------------
(* Scores *)

\* ln(n) * 10000 for n = 1..17, rounded
LnTab == <<0, 6931, 10986, 13863, 16094, 17918, 19459, 20794, 21972,
           23026, 23979, 24849, 25649, 26391, 27081, 27726, 28332>>

\* math.log(p / q) in fixed point, for positive integers p, q
LnRatio(p, q) == LnTab[p] - LnTab[q]

\* a score is <<numerator, denominator>>, denominator > 0
\* 0.0, on the scale of the logarithm table
Zero == <<0, 10000>>

ScoreGT(s, t) ==
    IF s[2] = t[2] THEN s[1] > t[1] ELSE s[1] * t[2] > t[1] * s[2]

ScoreEQ(s, t) ==
    IF s[2] = t[2] THEN s[1] = t[1] ELSE s[1] * t[2] = t[1] * s[2]

\* list.sort(key=lambda x: x[1], reverse=True): stable, descending by score
\* a descending sort that puts a later element before its equals
RECURSIVE InsertDesc_before_equal(_, _)
InsertDesc_before_equal(sorted, e) ==
    IF sorted = <<>> THEN <<e>>
    ELSE IF ~ScoreGT(Head(sorted)[2], e[2])
         THEN <<e>> \o sorted
         ELSE <<Head(sorted)>> \o InsertDesc_before_equal(Tail(sorted), e)

RECURSIVE InsertDesc(_, _)
InsertDesc(sorted, e) ==
    IF sorted = <<>> THEN <<e>>
    ELSE IF ScoreGT(e[2], Head(sorted)[2])
         THEN <<e>> \o sorted
         ELSE <<Head(sorted)>> \o InsertDesc(Tail(sorted), e)

RECURSIVE SortDesc(_)
SortDesc(list) ==
    IF list = <<>> THEN <<>>
    ELSE InsertDesc(SortDesc(SubSeq(list, 1, Len(list) - 1)), list[Len(list)])

\* list[:n]; a negative n counts from the end of the list
Take(list, n) ==
    IF n < 0 THEN SubSeq(list, 1, Max(0, Len(list) + n))
    ELSE SubSeq(list, 1, Min(n, Len(list)))

RECURSIVE SumSeq(_)
SumSeq(ns) == IF ns = <<>> THEN 0 ELSE Head(ns) + SumSeq(Tail(ns))

----------------------------------------------------------------------------
(* SearchEngine *)

\* faiss_index = None, metadata = None
None == [kind |-> "none"]

\* a loaded or built faiss index: its rows in order
Index(rows) == [kind |-> "index", rows |-> rows]

\* the in-memory metadata dict
Meta(documents, chunks) ==
    [kind |-> "dict", documents |-> documents, chunks |-> chunks]

\* the default synonym table of _load_synonyms, on the model's vocabulary:
\* the word "a" has the synonym "c"
synonyms == (<<"a">> :> << <<"c">> >>)

\* _get_embedding: the provider's vector for a text, here its character counts
Embed(text) == [c \in WordChars \cup SpaceChars \cup SentenceEnds |-> Count(text, c)]

\* faiss IndexFlatL2: the squared L2 distance of two vectors
L2(u, v) ==
    LET cs == <<"a", "b", "c", "A", " ", ".", "!", "?">>
    IN  SumSeq([i \in 1..Len(cs) |-> (u[cs[i]] - v[cs[i]]) * (u[cs[i]] - v[cs[i]])])

\* one row of the index: the vector, and the text it was embedded from
Row(text) == [vec |-> Embed(text), src |-> text]

\* SearchEngine._load_index: the (faiss_index, metadata) pair after construction
load_index(indexFile, metaFile) ==
    IF indexFile.kind = "index" /\ metaFile.kind # "absent"
    THEN IF metaFile.kind = "malformed"
         THEN [faiss_index |-> None, metadata |-> None]
         ELSE IF metaFile.kind = "list"
         THEN [faiss_index |-> indexFile,
               metadata |-> Meta(EmptyMap, metaFile.chunks)]
         ELSE [faiss_index |-> indexFile,
               metadata |-> Meta(metaFile.documents, metaFile.chunks)]
    ELSE [faiss_index |-> None, metadata |-> None]

\* _expand_query_with_synonyms
RECURSIVE ExpandTerms(_)
ExpandTerms(words) ==
    IF words = <<>> THEN <<>>
    ELSE <<Head(words)>>
         \o (IF Head(words) \in DOMAIN synonyms THEN synonyms[Head(words)] ELSE <<>>)
         \o ExpandTerms(Tail(words))

expand_query_with_synonyms(query) == Join(ExpandTerms(Words(Lower(query))))

\* (chunk.get('text') or chunk.get('chunk') or '').lower()
ChunkText(chunk) == Lower(OrElse(Get(chunk, "text", <<>>), Get(chunk, "chunk", <<>>)))

\* the token list of every chunk: re.findall(r'\b\w+\b', text) per chunk
ChunkTokens(chunks) ==
    SubSeq([i \in 1..Len(chunks) |-> Words(ChunkText(chunks[i]))], 1, Len(chunks))

\* doc_freq[term] after the counting loop: one increment per chunk holding
\* the term and per occurrence of the term in query_terms
DocFreq(toks, query_terms, term) ==
    Count(query_terms, term)
    * Cardinality({i \in 1..Len(toks) : Count(toks[i], term) > 0})

\* the sum of the chunks' token lengths (avg_doc_len * total_docs)
TotalLen(toks) == SumSeq([i \in 1..Len(toks) |-> Len(toks[i])])

\* math.log raises ValueError for this term: its argument is not positive
LogFails(toks, query_terms, term) ==
    Len(toks) - DocFreq(toks, query_terms, term) < 0

\* one term's summand of the BM25 score of a chunk with tokens text_terms:
\* idf * (tf * (k1 + 1)) / (tf + k1 * (1 - b + b * doc_len / avg_doc_len))
\* with k1 = 1.5, b = 0.75, avg_doc_len = total / N
TermScore(toks, total, query_terms, term, text_terms) ==
    LET tf == Count(text_terms, term)
        N == Len(toks)
        df == DocFreq(toks, query_terms, term)
    IN  IF tf > 0
        THEN (LnRatio(2 * (N - df) + 1, 2 * df + 1) * (20 * tf * total))
             \div (8 * tf * total + 3 * total + 9 * Len(text_terms) * N)
        ELSE 0

\* the BM25 score of the chunk with tokens text_terms
ChunkScore(toks, total, query_terms, text_terms) ==
    IF Len(text_terms) = 0 THEN Zero
    ELSE <<SumSeq([j \in 1..Len(query_terms) |->
                     TermScore(toks, total, query_terms, query_terms[j], text_terms)]),
           Zero[2]>>

\* the scores list before sorting: <<index, score>> per chunk, 0-based index
Bm25Scores(toks, query_terms) ==
    LET total == TotalLen(toks)
    IN  SubSeq([i \in 1..Len(toks) |->
                   <<i - 1, ChunkScore(toks, total, query_terms, toks[i])>>],
               1, Len(toks))

\* _bm25_search: [raised, results]; results are <<index, score>>
bm25_search(metadata, query, top_k) ==
    IF metadata.kind = "none" \/ metadata.chunks = <<>>
    THEN [raised |-> FALSE, results |-> <<>>]
    ELSE LET toks == ChunkTokens(metadata.chunks)
             query_terms == Words(Lower(query))
         IN  IF query_terms = <<>>
             THEN [raised |-> FALSE, results |-> <<>>]
             ELSE IF \E i \in 1..Len(toks), j \in 1..Len(query_terms) :
                        /\ Count(toks[i], query_terms[j]) > 0
                        /\ LogFails(toks, query_terms, query_terms[j])
             THEN [raised |-> TRUE, results |-> <<>>]
             ELSE [raised |-> FALSE,
                   results |-> Take(SortDesc(Bm25Scores(toks, query_terms)), top_k)]

\* faiss search: the rows by increasing distance to the query vector
RECURSIVE InsertNear(_, _)
InsertNear(sorted, e) ==
    IF sorted = <<>> THEN <<e>>
    ELSE IF e[2] < Head(sorted)[2]
         THEN <<e>> \o sorted
         ELSE <<Head(sorted)>> \o InsertNear(Tail(sorted), e)

RECURSIVE SortNear(_)
SortNear(list) ==
    IF list = <<>> THEN <<>>
    ELSE InsertNear(SortNear(SubSeq(list, 1, Len(list) - 1)), list[Len(list)])

\* _vector_search: the <<index, similarity>> list, similarity = 1 / (1 + dist)
vector_search(faiss_index, metadata, query, top_k, providerUp) ==
    IF faiss_index.kind = "none" \/ metadata.kind = "none" THEN <<>>
    ELSE IF ~providerUp THEN <<>>
    ELSE LET rows == faiss_index.rows
             q == Embed(query)
             near == Take(SortNear(SubSeq([i \in 1..Len(rows) |->
                                              <<i - 1, L2(q, rows[i].vec)>>],
                                          1, Len(rows))),
                          top_k)
         IN  [i \in 1..Len(near) |-> <<near[i][1], <<1, 1 + near[i][2]>> >>]

\* a variant of RankIn that ranks an absent idx last, at len(list)
RankIn_absent_last(results, idx) ==
    IF \E r \in 1..Len(results) : results[r][1] = idx
    THEN CHOOSE r \in 1..Len(results) : results[r][1] = idx
    ELSE Len(results)

\* rank + 1 of idx in a result list, len(list) + 1 when absent
RankIn(results, idx) ==
    IF \E r \in 1..Len(results) : results[r][1] = idx
    THEN CHOOSE r \in 1..Len(results) :
             /\ results[r][1] = idx
             /\ \A q \in (r + 1)..Len(results) : results[q][1] # idx
    ELSE Len(results) + 1

\* the elements of a set of small integers in increasing order (the
\* iteration order of a CPython set of small non-negative ints)
RECURSIVE Ascending(_)
Ascending(S) ==
    IF S = {} THEN <<>>
    ELSE LET m == CHOOSE a \in S : \A b \in S : a <= b
         IN  <<m>> \o Ascending(S \ {m})

\* a fusion over the candidates that both lists hold
reciprocal_rank_fusion_common(bm25_results, vector_results) ==
    LET all_indices ==
            Ascending({bm25_results[i][1] : i \in 1..Len(bm25_results)}
                      \cap {vector_results[i][1] : i \in 1..Len(vector_results)})
        rrf_scores ==
            [n \in 1..Len(all_indices) |->
                LET idx == all_indices[n]
                    bm25_rank == RankIn(bm25_results, idx)
                    vector_rank == RankIn(vector_results, idx)
                IN  <<idx, <<(RRF_K + bm25_rank) + (RRF_K + vector_rank),
                             (RRF_K + bm25_rank) * (RRF_K + vector_rank)>> >>]
    IN  SortDesc(rrf_scores)

\* _reciprocal_rank_fusion
reciprocal_rank_fusion(bm25_results, vector_results) ==
    LET all_indices ==
            Ascending({bm25_results[i][1] : i \in 1..Len(bm25_results)}
                      \cup {vector_results[i][1] : i \in 1..Len(vector_results)})
        rrf_scores ==
            [n \in 1..Len(all_indices) |->
                LET idx == all_indices[n]
                    bm25_rank == RankIn(bm25_results, idx)
                    vector_rank == RankIn(vector_results, idx)
                IN  <<idx, <<(RRF_K + bm25_rank) + (RRF_K + vector_rank),
                             (RRF_K + bm25_rank) * (RRF_K + vector_rank)>> >>]
    IN  SortDesc(rrf_scores)

\* the SearchResult built for one <<idx, score>> of the combined list
Hydrate(metadata, idx, score) ==
    LET chunk == metadata.chunks[idx + 1]
        documents == metadata.documents
        doc_id == Get(chunk, "doc_id", "unknown")
        source_name == IF doc_id \in DOMAIN documents
                       THEN documents[doc_id].title
                       ELSE Get(chunk, "doc", "Unknown Document")
    IN  [text |-> OrElse(Get(chunk, "text", <<>>), Get(chunk, "chunk", <<>>)),
         source |-> source_name,
         score |-> score,
         chunk_id |-> IF "id" \in DOMAIN chunk THEN chunk.id
                      ELSE Get(chunk, "chunk_id", "None"),
         metadata |-> [doc_id |-> doc_id,
                       chunk_id |-> Get(chunk, "chunk_id", "None"),
                       file_path |-> IF doc_id \in DOMAIN documents
                                     THEN documents[doc_id].file_path
                                     ELSE "None"]]

\* the loop "for idx, score in combined_results[:top_k]: if idx < len(chunks)"
RECURSIVE HydrateAll(_, _)
HydrateAll(metadata, combined) ==
    IF combined = <<>> THEN <<>>
    ELSE (IF Head(combined)[1] < Len(metadata.chunks)
          THEN <<Hydrate(metadata, Head(combined)[1], Head(combined)[2])>>
          ELSE <<>>)
         \o HydrateAll(metadata, Tail(combined))

\* a combined list that puts the vector results after the lexical ones
Combined_concatenated(bm25_results, vector_results) ==
    bm25_results \o vector_results

\* the combined list of search: fusion, or the one non-empty channel
Combined(bm25_results, vector_results) ==
    IF bm25_results # <<>> /\ vector_results # <<>>
    THEN reciprocal_rank_fusion(bm25_results, vector_results)
    ELSE IF bm25_results # <<>> THEN bm25_results
    ELSE vector_results

\* a variant of search_try that gives the expanded query to both channels
search_try_expanded(faiss_index, metadata, query, top_k, providerUp) ==
    LET expanded_query == expand_query_with_synonyms(query)
        bm25 == bm25_search(metadata, expanded_query, search_top_k)
        vector_results == vector_search(faiss_index, metadata, expanded_query,
                                        search_top_k, providerUp)
    IN  IF bm25.raised THEN [raised |-> TRUE, results |-> <<>>]
        ELSE [raised |-> FALSE,
              results |-> HydrateAll(metadata,
                              Take(Combined(bm25.results, vector_results), top_k))]

\* the body of the try block of search: [raised, results]
search_try(faiss_index, metadata, query, top_k, providerUp) ==
    LET expanded_query == expand_query_with_synonyms(query)
        bm25 == bm25_search(metadata, expanded_query, search_top_k)
        vector_results == vector_search(faiss_index, metadata, query,
                                        search_top_k, providerUp)
    IN  IF bm25.raised THEN [raised |-> TRUE, results |-> <<>>]
        ELSE [raised |-> FALSE,
              results |-> HydrateAll(metadata,
                              Take(Combined(bm25.results, vector_results), top_k))]

\* a variant of search without the except clause
search_unguarded(faiss_index, metadata, query, top_k, providerUp) ==
    IF metadata.kind = "none" \/ metadata.chunks = <<>>
    THEN [raised |-> FALSE, results |-> <<>>]
    ELSE search_try(faiss_index, metadata, query, top_k, providerUp)

\* SearchEngine.search: [raised, results]; raised tells whether an exception
\* leaves the call
search(faiss_index, metadata, query, top_k, providerUp) ==
    IF metadata.kind = "none" \/ metadata.chunks = <<>>
    THEN [raised |-> FALSE, results |-> <<>>]
    ELSE LET body == search_try(faiss_index, metadata, query, top_k, providerUp)
         IN  IF body.raised
             THEN [raised |-> FALSE, results |-> <<>>]     \* except Exception
             ELSE body

\* the embedding loop of rebuild_index: [raised, rows]
RECURSIVE EmbedAll(_, _)
EmbedAll(chunks, providerUp) ==
    IF chunks = <<>> THEN [raised |-> FALSE, rows |-> <<>>]
    ELSE IF "text" \notin DOMAIN Head(chunks) \/ ~providerUp
    THEN [raised |-> TRUE, rows |-> <<>>]
    ELSE LET rest == EmbedAll(Tail(chunks), providerUp)
         IN  [raised |-> rest.raised,
              rows |-> IF rest.raised THEN <<>>
                       ELSE <<Row(Head(chunks).text)>> \o rest.rows]

\* a variant of rebuild_index that publishes the metadata it read before the
\* embeddings are there
rebuild_index_eager(faiss_index, metadata, indexFile, metaFile, providerUp) ==
    IF metaFile.kind # "dict"
    THEN [ok |-> FALSE, faiss_index |-> faiss_index, metadata |-> metadata,
          indexFile |-> indexFile]
    ELSE LET emb == EmbedAll(metaFile.chunks, providerUp)
         IN  IF metaFile.chunks = <<>> \/ emb.raised
             THEN [ok |-> FALSE, faiss_index |-> faiss_index,
                   metadata |-> Meta(metaFile.documents, metaFile.chunks),
                   indexFile |-> indexFile]
             ELSE [ok |-> TRUE,
                   faiss_index |-> Index(emb.rows),
                   metadata |-> Meta(metaFile.documents, metaFile.chunks),
                   indexFile |-> Index(emb.rows)]

\* SearchEngine.rebuild_index: [ok, faiss_index, metadata, indexFile]
rebuild_index(faiss_index, metadata, indexFile, metaFile, providerUp) ==
    LET unchanged == [ok |-> FALSE, faiss_index |-> faiss_index,
                      metadata |-> metadata, indexFile |-> indexFile]
    IN  IF metaFile.kind # "dict" THEN unchanged
        ELSE IF metaFile.chunks = <<>> THEN unchanged
        ELSE LET emb == EmbedAll(metaFile.chunks, providerUp)
             IN  IF emb.raised THEN unchanged
                 ELSE [ok |-> TRUE,
                       faiss_index |-> Index(emb.rows),
                       metadata |-> Meta(metaFile.documents, metaFile.chunks),
                       indexFile |-> Index(emb.rows)]

----------------------------------------------------------------------------
(* The system: one BabyCareRAG instance over one documents_dir / index_dir *)

VARIABLES
    docFiles,     \* documents_dir: file name -> [present, content]
    metaFile,     \* index_dir/metadata.json
    indexFile,    \* index_dir/index.bin
    faiss_index,  \* SearchEngine.faiss_index
    metadata,     \* SearchEngine.metadata
    providerUp,   \* whether the embedding provider answers
    removed,      \* doc ids whose remove returned true and that were not ingested since
    last,         \* the last call made on the facade and what it returned
    fn            \* the call of one method that is followed on its own, if any

vars == <<docFiles, metaFile, indexFile, faiss_index, metadata, providerUp,
          removed, last, fn>>

\* the variables of the facade and its store
store == <<docFiles, metaFile, indexFile, faiss_index, metadata, providerUp,
           removed, last>>

\* no method is followed on its own
Idle == [op |-> "idle"]

FileNames == {"h1_t1.txt", "n1.txt"}

\* texts given to add_document_from_text
TextInputs == {<<"A", ".", "b", " ", "c">>, <<" ", " ">>}

\* the file outside documents_dir given to add_document, and its content
ExternalContent == <<"A", ".", "b", " ", "c">>

\* the body served for the URL given to add_document_from_url
UrlContent == <<"b", " ", "c">>

\* paths given to add_document
Sources == {"ext/h1_t1.txt", "ext/missing.txt", "documents/h1_t1.txt"}

\* doc ids given to remove_document; "dX" is no document's id
RemoveIds == {"d1", "d2", "dX"}

\* the (query, top_k) pairs given to search_documents
SearchInputs == {<< <<"A">>, 1 >>, << <<"A">>, 2 >>, << <<".">>, 1 >>,
                 << <<"b", " ", "b">>, 2 >>}

\* a store written by an earlier version: a bare array of chunks, with its index
LegacyChunks == <<[doc |-> "old.txt", chunk_id |-> "old_0", chunk |-> <<"b">>]>>

\* what is remembered of a call: its name and argument, what it returned,
\* whether it invoked rebuild_index and what that returned; for a search the
\* top_k, whether an exception left the call, and the results
Call(op, arg, ret, rebuilt, rebuild_ret) ==
    [op |-> op, arg |-> arg, top_k |-> 0, ret |-> ret, rebuilt |-> rebuilt,
     rebuild_ret |-> rebuild_ret, raised |-> FALSE, results |-> <<>>]

Init ==
    /\ docFiles = [f \in FileNames |-> Absent]
    /\ \/ metaFile = NoFile /\ indexFile = NoFile
       \/ metaFile = ListFile(LegacyChunks) /\ indexFile = Index(<<Row(<<"b">>)>>)
       \/ metaFile = Malformed /\ indexFile = Index(<<Row(<<"b">>)>>)
    /\ faiss_index = load_index(indexFile, metaFile).faiss_index
    /\ metadata = load_index(indexFile, metaFile).metadata
    /\ providerUp = TRUE
    /\ removed = {}
    /\ last = Call("init", "", TRUE, FALSE, FALSE)
    /\ fn = Idle

\* a variant of rebuild_if_success that rebuilds whatever the answer was
rebuild_always(success, fi, md, idxFile, meta, up) ==
    LET rb == rebuild_index(fi, md, idxFile, meta, up)
    IN  [rebuilt |-> TRUE, rebuild_ret |-> rb.ok, faiss_index |-> rb.faiss_index,
         metadata |-> rb.metadata, indexFile |-> rb.indexFile]

\* the facade's "if success: self.search_engine.rebuild_index()" after the
\* document processor answered success and left metadata.json as meta:
\* [rebuilt, rebuild_ret, faiss_index, metadata, indexFile]
rebuild_if_success(success, fi, md, idxFile, meta, up) ==
    IF success
    THEN LET rb == rebuild_index(fi, md, idxFile, meta, up)
         IN  [rebuilt |-> TRUE, rebuild_ret |-> rb.ok, faiss_index |-> rb.faiss_index,
              metadata |-> rb.metadata, indexFile |-> rb.indexFile]
    ELSE [rebuilt |-> FALSE, rebuild_ret |-> FALSE, faiss_index |-> fi,
          metadata |-> md, indexFile |-> idxFile]

\* the rest of an add_* / remove_document call of the facade once the document
\* processor has answered with (ok, meta, files): rebuild, then return ok
Finish(op, arg, ok, meta, files, ingested) ==
    LET rb == rebuild_if_success(ok, faiss_index, metadata, indexFile, meta, providerUp)
    IN  /\ docFiles' = files
        /\ metaFile' = meta
        /\ faiss_index' = rb.faiss_index
        /\ metadata' = rb.metadata
        /\ indexFile' = rb.indexFile
        /\ removed' = IF ~ok THEN removed
                      ELSE IF op = "remove_document" THEN removed \cup {arg}
                      ELSE removed \ {ingested}
        /\ last' = Call(op, arg, ok, rb.rebuilt, rb.rebuild_ret)
        /\ UNCHANGED <<providerUp, fn>>

\* ingest is explored while the persisted chunk sequence stays short
WithinBound(meta) ==
    IF meta.kind = "dict" THEN Len(meta.chunks) <= MaxChunks ELSE TRUE

\* BabyCareRAG.add_document(file_path)
AddDocument(src) ==
    IF src = "ext/missing.txt"
    THEN Finish("add_document", src, FALSE, metaFile, docFiles, "none")
    ELSE IF src = "ext/h1_t1.txt"
    THEN \* not under documents_dir: copied to documents_dir / file_path.name
         LET name == "h1_t1.txt"
             files == [docFiles EXCEPT ![name] = File(ExternalContent)]
             r == process_single_document(name, ExternalContent, Stem(name), metaFile)
         IN  /\ WithinBound(r.meta)
             /\ Finish("add_document", src, r.ok, r.meta, files, DocIdOf[name])
    ELSE LET name == "h1_t1.txt"
         IN  IF ~docFiles[name].present
             THEN Finish("add_document", src, FALSE, metaFile, docFiles, "none")
             ELSE LET r == process_single_document(name, docFiles[name].content,
                                                   Stem(name), metaFile)
                  IN  /\ WithinBound(r.meta)
                      /\ Finish("add_document", src, r.ok, r.meta, docFiles,
                                DocIdOf[name])

\* BabyCareRAG.add_document_from_url(url); the download succeeds or fails
AddDocumentFromUrl(downloaded) ==
    IF ~downloaded
    THEN Finish("add_document_from_url", "http://h/n1.txt", FALSE, metaFile,
                docFiles, "none")
    ELSE LET files == [docFiles EXCEPT !["n1.txt"] = File(UrlContent)]
             r == process_single_document("n1.txt", UrlContent, "http://h/n1.txt",
                                          metaFile)
         IN  /\ WithinBound(r.meta)
             /\ Finish("add_document_from_url", "http://h/n1.txt", r.ok, r.meta,
                       files, DocIdOf["n1.txt"])

\* BabyCareRAG.add_document_from_text(text, title)
AddDocumentFromText(text, title) ==
    LET name == TextFileName(title)
        files == [docFiles EXCEPT ![name] = File(text)]
        r == process_single_document(name, text, title, metaFile)
    IN  /\ WithinBound(r.meta)
        /\ Finish("add_document_from_text", title, r.ok, r.meta, files, DocIdOf[name])

\* BabyCareRAG.remove_document(doc_id)
RemoveDocument(doc_id) ==
    LET r == dp_remove_document(doc_id, metaFile, docFiles)
    IN  Finish("remove_document", doc_id, r.ok, r.meta, r.files, "none")

\* BabyCareRAG.rebuild_index()
RebuildIndex ==
    LET rb == rebuild_index(faiss_index, metadata, indexFile, metaFile, providerUp)
    IN  /\ faiss_index' = rb.faiss_index
        /\ metadata' = rb.metadata
        /\ indexFile' = rb.indexFile
        /\ last' = Call("rebuild_index", "", rb.ok, TRUE, rb.ok)
        /\ UNCHANGED <<docFiles, metaFile, providerUp, removed, fn>>

\* BabyCareRAG.search_documents(query, top_k)
Search(query, top_k) ==
    LET r == search(faiss_index, metadata, query, top_k, providerUp)
    IN  /\ last' = [op |-> "search", arg |-> query, top_k |-> top_k, ret |-> TRUE,
                    rebuilt |-> FALSE, rebuild_ret |-> FALSE,
                    raised |-> r.raised, results |-> r.results]
        /\ UNCHANGED <<docFiles, metaFile, indexFile, faiss_index, metadata,
                       providerUp, removed, fn>>

\* a new SearchEngine over the same index_dir (update_config, or a restart)
RecreateEngine ==
    /\ faiss_index' = load_index(indexFile, metaFile).faiss_index
    /\ metadata' = load_index(indexFile, metaFile).metadata
    /\ last' = Call("update_config", "", TRUE, FALSE, FALSE)
    /\ UNCHANGED <<docFiles, metaFile, indexFile, providerUp, removed, fn>>

\* the embedding provider goes down or comes back
ProviderChange ==
    /\ providerUp' = ~providerUp
    /\ last' = Call("provider", "", TRUE, FALSE, FALSE)
    /\ UNCHANGED <<docFiles, metaFile, indexFile, faiss_index, metadata, removed,
                   fn>>

Next ==
    \/ \E src \in Sources : AddDocument(src)
    \/ \E downloaded \in BOOLEAN : AddDocumentFromUrl(downloaded)
    \/ \E text \in TextInputs : AddDocumentFromText(text, "t1")
    \/ \E doc_id \in RemoveIds : RemoveDocument(doc_id)
    \/ RebuildIndex
    \/ \E in \in SearchInputs : Search(in[1], in[2])
    \/ RecreateEngine
    \/ ProviderChange

Spec == Init /\ [][Next]_vars

----------------------------------------------------------------------------
(* Single methods followed on their own, over a store that stays as created *)

\* the characters of the contents given to the chunker
ContentChars == {"a", ".", " "}

\* every text of exactly n characters
RECURSIVE TextsOfLen(_)
TextsOfLen(n) ==
    IF n = 0 THEN {<<>>}
    ELSE {Append(t, c) : t \in TextsOfLen(n - 1), c \in ContentChars}

\* the contents given to the chunker
Contents == UNION {TextsOfLen(n) : n \in 0..MaxContentLen}

\* the (chunk_size, chunk_overlap) pairs the chunker is configured with;
\* RAGConfig accepts any two integers
ChunkConfigs == {<<4, 1>>, <<4, 2>>, <<3, 0>>, <<2, 0>>, <<2, 2>>, <<2, 3>>}

\* the metadata.json a followed _process_single_document starts from
ProcessStores ==
    {NoFile,
     DictFile(("d2" :> DocumentInfo("d2", "n1", "n1.txt", 1, 1)),
              <<MakeChunk("d2", 0, <<"b">>, 0, 4)>>)}

\* the calls that are followed, before they are made
ChunkCalls ==
    {[op |-> "chunk", pc |-> "call", content |-> content, size |-> cfg[1],
      overlap |-> cfg[2], start |-> 0, ordinal |-> 0, chunks |-> <<>>,
      steps |-> 0] : content \in Contents, cfg \in ChunkConfigs}

ProcessCalls ==
    {[op |-> "process", pc |-> "call", content |-> content, before |-> meta,
      ok |-> FALSE, meta |-> meta] :
        content \in {c \in Contents : Len(c) <= 3}, meta \in ProcessStores}

\* the chunk texts of the corpora given to the lexical scorer
CorpusTexts == {<<"a">>, <<"b">>, <<"a", " ", "b">>, <<"a", " ", "a">>}

\* a stored chunk with this text
TextChunk(text) == MakeChunk("d1", 0, text, 0, chunk_size)

\* the corpora given to the lexical scorer: one or two chunks
Corpora ==
    {<<TextChunk(t)>> : t \in CorpusTexts}
    \cup {<<TextChunk(t), TextChunk(u)>> : t \in CorpusTexts, u \in CorpusTexts}

\* the queries given to the lexical scorer
Bm25Queries == {<<"a">>, <<"a", " ", "b">>}

\* the chunk sequence with one more occurrence of term in the text of chunk i
AddOccurrence(chunks, i, term) ==
    [chunks EXCEPT ![i].text = @ \o <<" ">> \o term]

\* the score a result list gives to the chunk index idx
ScoreOf(results, idx) ==
    results[CHOOSE r \in 1..Len(results) : results[r][1] = idx][2]

\* _bm25_search is called on a corpus, and again after one more occurrence
\* of a query term was added to chunk i
Bm25Calls ==
    {[op |-> "bm25", pc |-> "call", chunks |-> chunks, query |-> query,
      i |-> i, term |-> term, before |-> Zero, after |-> Zero] :
        chunks \in Corpora, query \in Bm25Queries, i \in 1..2,
        term \in {<<"a">>, <<"b">>}}

\* the chunk indices of the ranked lists given to the fusion
FuseIndices == 0..3

\* every ranking of n distinct chunk indices
RECURSIVE RankingsOfLen(_)
RankingsOfLen(n) ==
    IF n = 0 THEN {<<>>}
    ELSE {l \in {Append(m, x) : m \in RankingsOfLen(n - 1), x \in FuseIndices} :
              \A i \in 1..(n - 1) : l[i] # l[n]}

\* a channel's result list for a ranking: <<idx, score>> by descending score
Ranked(l) == [r \in 1..Len(l) |-> <<l[r], <<Len(l) - r + 1, 1>> >>]

\* _reciprocal_rank_fusion is called on two non-empty result lists
FuseCalls ==
    {[op |-> "fuse", pc |-> "call", bm25_results |-> Ranked(l),
      vector_results |-> Ranked(v), out |-> <<>>] :
        l \in UNION {RankingsOfLen(n) : n \in 1..3},
        v \in UNION {RankingsOfLen(n) : n \in 1..3}}

\* the RAGConfig objects given to the facade; the weights are in tenths
\* (3 is 0.3), on which the float sum of the code is exact
Configs == [gemini_api_key : {"", "key"}, bm25_weight : {3, 5},
            vector_weight : {5, 7}]

\* RAGConfig.validate_config: whether it raises ValueError
validate_config(config) ==
    IF config.gemini_api_key = "" THEN TRUE
    ELSE config.bm25_weight + config.vector_weight # 10

\* BabyCareRAG.__init__(config): [raised, config, document_processor,
\* search_engine]; the two components are told apart by the number of the
\* construction that made them
facade_init(config) ==
    IF validate_config(config)
    THEN [raised |-> TRUE, config |-> config, document_processor |-> 0,
          search_engine |-> 0]
    ELSE [raised |-> FALSE, config |-> config, document_processor |-> 1,
          search_engine |-> 1]

\* a variant of update_config that takes the configuration before it is
\* validated
update_config_assign_first(facade, config) ==
    IF validate_config(config)
    THEN [ret |-> FALSE, config |-> config,
          document_processor |-> facade.document_processor,
          search_engine |-> facade.search_engine]
    ELSE [ret |-> TRUE, config |-> config,
          document_processor |-> facade.document_processor + 1,
          search_engine |-> facade.search_engine + 1]

\* BabyCareRAG.update_config(config) on a constructed facade:
\* [ret, config, document_processor, search_engine]
update_config(facade, config) ==
    IF validate_config(config)
    THEN [ret |-> FALSE, config |-> facade.config,
          document_processor |-> facade.document_processor,
          search_engine |-> facade.search_engine]
    ELSE [ret |-> TRUE, config |-> config,
          document_processor |-> facade.document_processor + 1,
          search_engine |-> facade.search_engine + 1]

\* the facade is constructed with one configuration and then given another
ConfigCalls ==
    {[op |-> "config", pc |-> "call", given |-> c, new |-> n, ret |-> FALSE,
      facade |-> [raised |-> FALSE, config |-> c, document_processor |-> 0,
                  search_engine |-> 0]] : c \in Configs, n \in Configs}

\* the chunk texts of the three-chunk corpora: "." holds no term
LexTexts == {<<"a">>, <<"b">>, <<".">>}

\* the corpora whose lexical ranking is followed: one to three chunks
LexCorpora ==
    Corpora
    \cup {<<TextChunk(t), TextChunk(u), TextChunk(v)>> :
              t \in LexTexts, u \in LexTexts, v \in LexTexts}

\* queries with one term, two terms, a term no chunk holds, and no term
LexQueries == Bm25Queries \cup {<<"c">>, <<".">>}

\* _bm25_search(query, top_k) is called on a corpus
LexCalls ==
    {[op |-> "lex", pc |-> "call", chunks |-> chunks, query |-> query,
      top_k |-> k, raised |-> FALSE, out |-> <<>>] :
        chunks \in LexCorpora, query \in LexQueries, k \in 1..search_top_k}

\* an engine that loaded the store after the external file was ingested and
\* the index rebuilt, and one after the URL body was ingested as well
SearchStores ==
    LET r1 == process_single_document("h1_t1.txt", ExternalContent, "t1", NoFile)
        b1 == rebuild_index(None, None, NoFile, r1.meta, TRUE)
        r2 == process_single_document("n1.txt", <<"c", ".">>, "n1", r1.meta)
        b2 == rebuild_index(None, None, NoFile, r2.meta, TRUE)
    IN  {[faiss_index |-> b1.faiss_index, metadata |-> b1.metadata],
         [faiss_index |-> b2.faiss_index, metadata |-> b2.metadata],
         [faiss_index |-> b1.faiss_index, metadata |-> b2.metadata]}

\* the top_k values given to search
SearchTopKs == 0..search_top_k

\* search(query, top_k) is called on an engine, the provider up or down
SearchCalls ==
    {[op |-> "search", pc |-> "call", engine |-> e, query |-> q, top_k |-> k,
      up |-> up, ranked |-> <<>>, out |-> <<>>] :
        e \in SearchStores, q \in {<<"A">>, <<"c">>, <<"b">>, <<".">>},
        k \in SearchTopKs, up \in BOOLEAN}

FnInit ==
    /\ docFiles = [f \in FileNames |-> Absent]
    /\ metaFile = NoFile
    /\ indexFile = NoFile
    /\ faiss_index = None
    /\ metadata = None
    /\ providerUp = TRUE
    /\ removed = {}
    /\ last = Call("init", "", TRUE, FALSE, FALSE)
    /\ fn \in ChunkCalls \cup ProcessCalls \cup Bm25Calls \cup FuseCalls
               \cup ConfigCalls
               \cup LexCalls
               \cup SearchCalls

\* _chunk_document(content, doc_id) up to its while loop: pc is "loop" while
\* the loop condition holds, "done" at the return, "raised" after an exception
ChunkStart ==
    /\ fn.op = "chunk"
    /\ fn.pc = "call"
    /\ fn' = [fn EXCEPT !.pc = IF 0 < Len(fn.content) THEN "loop" ELSE "done"]
    /\ UNCHANGED store

\* one iteration of the while loop of _chunk_document
ChunkStep ==
    /\ fn.op = "chunk"
    /\ fn.pc = "loop"
    /\ fn.steps < MaxWindows
    /\ LET it == ChunkIter(fn.content, "d1", fn.size, fn.overlap, fn.start,
                           fn.ordinal, fn.chunks)
       IN  fn' = IF it.raised
                 THEN [fn EXCEPT !.pc = "raised", !.steps = @ + 1]
                 ELSE [fn EXCEPT !.pc = IF it.start < Len(fn.content)
                                        THEN "loop" ELSE "done",
                                 !.start = it.start,
                                 !.ordinal = it.ordinal,
                                 !.chunks = it.chunks,
                                 !.steps = @ + 1]
    /\ UNCHANGED store

\* _process_single_document on a file holding content, over the store meta
ProcessDocument ==
    /\ fn.op = "process"
    /\ fn.pc = "call"
    /\ LET r == process_single_document("h1_t1.txt", fn.content, "t1", fn.before)
       IN  fn' = [fn EXCEPT !.pc = "done", !.ok = r.ok, !.meta = r.meta]
    /\ UNCHANGED store

\* _bm25_search on the corpus and on the corpus with the added occurrence
Bm25Compare ==
    /\ fn.op = "bm25"
    /\ fn.pc = "call"
    /\ fn.i <= Len(fn.chunks)
    /\ Count(Words(Lower(fn.query)), fn.term) > 0
    /\ LET more == AddOccurrence(fn.chunks, fn.i, fn.term)
           r1 == bm25_search(Meta(EmptyMap, fn.chunks), fn.query, Len(fn.chunks))
           r2 == bm25_search(Meta(EmptyMap, more), fn.query, Len(fn.chunks))
       IN  /\ ~r1.raised
           /\ ~r2.raised
           /\ fn' = [fn EXCEPT !.pc = "done",
                               !.before = ScoreOf(r1.results, fn.i - 1),
                               !.after = ScoreOf(r2.results, fn.i - 1)]
    /\ UNCHANGED store

\* _reciprocal_rank_fusion(bm25_results, vector_results)
Fuse ==
    /\ fn.op = "fuse"
    /\ fn.pc = "call"
    /\ fn' = [fn EXCEPT !.pc = "done",
                        !.out = reciprocal_rank_fusion(fn.bm25_results,
                                                       fn.vector_results)]
    /\ UNCHANGED store

\* BabyCareRAG(config)
Construct ==
    /\ fn.op = "config"
    /\ fn.pc = "call"
    /\ LET made == facade_init(fn.given)
       IN  fn' = [fn EXCEPT !.pc = IF made.raised THEN "raised" ELSE "ready",
                           !.facade = made]
    /\ UNCHANGED store

\* BabyCareRAG.update_config(config)
UpdateConfig ==
    /\ fn.op = "config"
    /\ fn.pc = "ready"
    /\ LET r == update_config(fn.facade, fn.new)
       IN  fn' = [fn EXCEPT !.pc = "updated",
                           !.ret = r.ret,
                           !.facade = [raised |-> FALSE, config |-> r.config,
                                       document_processor |-> r.document_processor,
                                       search_engine |-> r.search_engine]]
    /\ UNCHANGED store

\* _bm25_search(query, top_k)
Bm25Search ==
    /\ fn.op = "lex"
    /\ fn.pc = "call"
    /\ LET r == bm25_search(Meta(EmptyMap, fn.chunks), fn.query, fn.top_k)
       IN  fn' = [fn EXCEPT !.pc = "done", !.raised = r.raised,
                           !.out = r.results]
    /\ UNCHANGED store

\* SearchEngine.search(query, top_k); ranked is combined_results[:top_k]
SearchCall ==
    /\ fn.op = "search"
    /\ fn.pc = "call"
    /\ LET e == fn.engine
           bm25 == bm25_search(e.metadata, expand_query_with_synonyms(fn.query),
                               search_top_k)
           vector_results == vector_search(e.faiss_index, e.metadata, fn.query,
                                           search_top_k, fn.up)
           r == search(e.faiss_index, e.metadata, fn.query, fn.top_k, fn.up)
       IN  fn' = [fn EXCEPT !.pc = "done",
                           !.ranked = IF bm25.raised THEN <<>>
                                      ELSE Take(Combined(bm25.results,
                                                         vector_results),
                                                fn.top_k),
                           !.out = r.results]
    /\ UNCHANGED store

FnNext ==
    \/ ChunkStart
    \/ ChunkStep
    \/ ProcessDocument
    \/ Bm25Compare
    \/ Fuse
    \/ Construct
    \/ UpdateConfig
    \/ Bm25Search
    \/ SearchCall

FnSpec == FnInit /\ [][FnNext]_vars

----------------------------------------------------------------------------
(* Calls made from two threads on one facade; nothing in the code locks *)

\* a thread about to run prog: "ingest" of the file arg, "rebuild", or
\* "search" for query, with what it has read and computed so far
Thread(prog, arg, query) ==
    [prog |-> prog, arg |-> arg, query |-> query, pc |-> "start",
     local |-> NoFile,
     built |-> [faiss_index |-> None, metadata |-> None],
     seen_index |-> None, seen_bm25 |-> None, seen_vector |-> None,
     seen_hydrate |-> None, bm25 |-> <<>>, vector |-> <<>>, ret |-> FALSE,
     results |-> <<>>]

\* what the first and the second thread run
Programs1 == {Thread("ingest", "h1_t1.txt", <<>>), Thread("search", "", <<"c">>)}

Programs2 == {Thread("ingest", "n1.txt", <<>>), Thread("rebuild", "", <<>>)}

\* the content of the file a thread ingests
ContentOf(name) == IF name = "h1_t1.txt" THEN ExternalContent ELSE UrlContent

\* the store the threads start on: as created, or after add_document_from_url
\* was answered "c." and the index was rebuilt
BuiltStore ==
    LET r == process_single_document("n1.txt", <<"c", ".">>, "n1", NoFile)
        rb == rebuild_index(None, None, NoFile, r.meta, TRUE)
    IN  [fresh |-> FALSE, metaFile |-> r.meta, indexFile |-> rb.indexFile,
         faiss_index |-> rb.faiss_index, metadata |-> rb.metadata]

FreshStore ==
    [fresh |-> TRUE, metaFile |-> NoFile, indexFile |-> NoFile,
     faiss_index |-> None, metadata |-> None]

ConcInit ==
    /\ docFiles = [f \in FileNames |-> Absent]
    /\ \E st \in {FreshStore, BuiltStore} :
           /\ metaFile = st.metaFile
           /\ indexFile = st.indexFile
           /\ faiss_index = st.faiss_index
           /\ metadata = st.metadata
           /\ fn \in {[op |-> "threads", fresh |-> st.fresh, t |-> <<p1, p2>>] :
                          p1 \in Programs1, p2 \in Programs2}
    /\ providerUp = TRUE
    /\ removed = {}
    /\ last = Call("init", "", TRUE, FALSE, FALSE)

\* thread i moves to the record th
Move(i, th) == fn' = [fn EXCEPT !.t[i] = th]

\* _update_metadata, first half: the file is copied to documents_dir and
\* metadata.json is read
IngestRead(i) ==
    LET th == fn.t[i]
    IN  /\ th.prog = "ingest"
        /\ th.pc = "start"
        /\ docFiles' = [docFiles EXCEPT ![th.arg] = File(ContentOf(th.arg))]
        /\ Move(i, [th EXCEPT !.pc = "write", !.local = metaFile])
        /\ UNCHANGED <<metaFile, indexFile, faiss_index, metadata, providerUp,
                       removed, last>>

\* _update_metadata, second half: what was read, with the new document and
\* its chunks, is written back
IngestWrite(i) ==
    LET th == fn.t[i]
        r == process_single_document(th.arg, ContentOf(th.arg), Stem(th.arg),
                                     th.local)
    IN  /\ th.prog = "ingest"
        /\ th.pc = "write"
        /\ metaFile' = r.meta
        /\ Move(i, [th EXCEPT !.pc = IF r.ok THEN "rebuild" ELSE "done",
                              !.ret = r.ok])
        /\ UNCHANGED <<docFiles, indexFile, faiss_index, metadata, providerUp,
                       removed, last>>

\* rebuild_index up to faiss.write_index: metadata.json is read, every chunk
\* embedded, index.bin written
RebuildBuild(i) ==
    LET th == fn.t[i]
        rb == rebuild_index(faiss_index, metadata, indexFile, metaFile, providerUp)
    IN  /\ \/ th.prog = "ingest" /\ th.pc = "rebuild"
           \/ th.prog = "rebuild" /\ th.pc = "start"
        /\ indexFile' = rb.indexFile
        /\ Move(i, [th EXCEPT !.pc = IF rb.ok THEN "set_index" ELSE "done",
                              !.built = [faiss_index |-> rb.faiss_index,
                                         metadata |-> rb.metadata]])
        /\ UNCHANGED <<docFiles, metaFile, faiss_index, metadata, providerUp,
                       removed, last>>

\* rebuild_index: self.faiss_index = index
SetIndex(i) ==
    LET th == fn.t[i]
    IN  /\ th.pc = "set_index"
        /\ faiss_index' = th.built.faiss_index
        /\ Move(i, [th EXCEPT !.pc = "set_metadata"])
        /\ UNCHANGED <<docFiles, metaFile, indexFile, metadata, providerUp,
                       removed, last>>

\* rebuild_index: self.metadata = metadata
SetMetadata(i) ==
    LET th == fn.t[i]
    IN  /\ th.pc = "set_metadata"
        /\ metadata' = th.built.metadata
        /\ Move(i, [th EXCEPT !.pc = "done"])
        /\ UNCHANGED <<docFiles, metaFile, indexFile, faiss_index, providerUp,
                       removed, last>>

\* search: "if not self.metadata or not self.metadata.get('chunks')"
SearchCheck(i) ==
    LET th == fn.t[i]
    IN  /\ th.prog = "search"
        /\ th.pc = "start"
        /\ Move(i, [th EXCEPT !.pc = IF metadata.kind = "none"
                                      THEN "done"
                                      ELSE IF metadata.chunks = <<>>
                                      THEN "done" ELSE "bm25"])
        /\ UNCHANGED store

\* search: _bm25_search reads self.metadata
SearchBm25(i) ==
    LET th == fn.t[i]
        r == bm25_search(metadata, expand_query_with_synonyms(th.query),
                         search_top_k)
    IN  /\ th.pc = "bm25"
        /\ Move(i, [th EXCEPT !.pc = IF r.raised THEN "done" ELSE "vector",
                              !.seen_bm25 = metadata,
                              !.bm25 = r.results])
        /\ UNCHANGED store

\* search: _vector_search reads self.faiss_index and self.metadata
SearchVector(i) ==
    LET th == fn.t[i]
    IN  /\ th.pc = "vector"
        /\ Move(i, [th EXCEPT !.pc = "hydrate",
                              !.seen_index = faiss_index,
                              !.seen_vector = metadata,
                              !.vector = vector_search(faiss_index, metadata,
                                                       th.query, search_top_k,
                                                       providerUp)])
        /\ UNCHANGED store

\* search: the combined list is hydrated from self.metadata['chunks']
SearchHydrate(i) ==
    LET th == fn.t[i]
    IN  /\ th.pc = "hydrate"
        /\ Move(i, [th EXCEPT !.pc = "done",
                              !.seen_hydrate = metadata,
                              !.ret = TRUE,
                              !.results = HydrateAll(metadata,
                                              Take(Combined(th.bm25, th.vector),
                                                   search_top_k))])
        /\ UNCHANGED store

ConcNext ==
    \E i \in 1..2 :
        \/ IngestRead(i)
        \/ IngestWrite(i)
        \/ RebuildBuild(i)
        \/ SetIndex(i)
        \/ SetMetadata(i)
        \/ SearchCheck(i)
        \/ SearchBm25(i)
        \/ SearchVector(i)
        \/ SearchHydrate(i)

ConcSpec == ConcInit /\ [][ConcNext]_vars

----------------------------------------------------------------------------
(* What the claims speak about *)

\* the documents map and the chunk sequence persisted in metadata.json
StoredDocuments == IF metaFile.kind = "dict" THEN metaFile.documents ELSE EmptyMap

StoredChunks == IF metaFile.kind \in {"dict", "list"} THEN metaFile.chunks ELSE <<>>

StoredDocumentsNext == IF metaFile'.kind = "dict" THEN metaFile'.documents ELSE EmptyMap

StoredChunksNext == IF metaFile'.kind \in {"dict", "list"} THEN metaFile'.chunks ELSE <<>>

IngestOps == {"add_document", "add_document_from_url", "add_document_from_text"}

\* the text of a stored chunk, in either chunk format
TextOf(chunk) == OrElse(Get(chunk, "text", <<>>), Get(chunk, "chunk", <<>>))

\* the two channels' answers to the last search (nothing the channels read
\* changed since that call)
LastLexical ==
    bm25_search(metadata, expand_query_with_synonyms(last.arg), search_top_k)

LastVector == vector_search(faiss_index, metadata, last.arg, search_top_k, providerUp)

\* the corpus of the engine is loaded and not empty
CorpusLoaded == metadata.kind = "dict" /\ metadata.chunks # <<>>

\* the loaded index has one row per loaded chunk, row N built from chunk N's text
Aligned(fi, md) ==
    /\ Len(fi.rows) = Len(md.chunks)
    /\ \A n \in 1..Len(fi.rows) : fi.rows[n].src = TextOf(md.chunks[n])

\* the query and the chunk have a word in common
SharesTerm(query, chunk) ==
    \E i \in 1..Len(Words(Lower(query))) :
        Count(Words(Lower(TextOf(chunk))), Words(Lower(query))[i]) > 0

----------------------------------------------------------------------------
(* C1 *)

\* C1: whenever the vector channel answers a query, the loaded index has
\* exactly one row per chunk of the loaded metadata and row N was built from
\* the text of chunk N
C1_IndexAlignment ==
    (last.op = "search" /\ CorpusLoaded /\ LastVector # <<>>)
        => Aligned(faiss_index, metadata)

----------------------------------------------------------------------------
(* C2 *)

\* the store was fresh, documents were ingested, and no rebuild ever
\* succeeded: the provider was unavailable at every ingest
IngestedWithoutProvider ==
    /\ indexFile.kind = "absent"
    /\ metaFile.kind = "dict"
    /\ Cardinality(DOMAIN metaFile.documents) = 1

\* C2: after an ingest into a fresh store with the provider unavailable, a
\* search whose query shares a term with the document returns a chunk of that
\* document with a nonzero score
C2_LexicalAfterFailedRebuild ==
    (last.op = "search" /\ IngestedWithoutProvider)
        => \A d \in DOMAIN metaFile.documents :
              (\E n \in 1..Len(metaFile.chunks) :
                   /\ metaFile.chunks[n].doc_id = d
                   /\ SharesTerm(last.arg, metaFile.chunks[n]))
              => \E i \in 1..Len(last.results) :
                     /\ last.results[i].metadata.doc_id = d
                     /\ last.results[i].score[1] # 0

----------------------------------------------------------------------------
(* C3 *)

\* C3: after remove(doc_id) returned true, no search returns a result whose
\* doc_id is the removed one
C3_NoRemovedDocInResults ==
    last.op = "search"
        => \A i \in 1..Len(last.results) :
               last.results[i].metadata.doc_id \notin removed

----------------------------------------------------------------------------
(* C4 *)

\* the chunks of a sequence whose doc_id is not d, in their order
Others(chunks, d) == SelectSeq(chunks, LAMBDA c : Get(c, "doc_id", "none") # d)

\* C4: remove(doc_id) returns true exactly when doc_id is a key of the stored
\* documents map; then it deletes that entry and exactly the chunks carrying
\* that doc_id, other entries and the order of the other chunks unchanged, and
\* list no longer shows the document; otherwise it returns false
C4_RemoveCascades ==
    [][last'.op = "remove_document" =>
         LET d == last'.arg
         IN  /\ last'.ret = (d \in DOMAIN StoredDocuments)
             /\ last'.ret =>
                    /\ DOMAIN StoredDocumentsNext = (DOMAIN StoredDocuments) \ {d}
                    /\ \A e \in DOMAIN StoredDocumentsNext :
                           StoredDocumentsNext[e] = StoredDocuments[e]
                    /\ StoredChunksNext = Others(StoredChunks, d)
                    /\ \A n \in 1..Len(StoredChunksNext) :
                           Get(StoredChunksNext[n], "doc_id", "none") # d
                    /\ \A info \in list_documents(metaFile') : info.doc_id # d
       ]_vars

\* a remove returned true and chunks of another document are still stored
C4_Witness ==
    /\ last.op = "remove_document"
    /\ last.ret
    /\ StoredChunks # <<>>
    /\ DOMAIN StoredDocuments # {}

----------------------------------------------------------------------------
(* C5 *)

\* C5: every listed document's chunk_count equals the number of stored chunks
\* carrying its doc_id, and no two stored chunks have the same chunk id
C5_ChunkCountAndUniqueIds ==
    /\ \A info \in list_documents(metaFile) :
           info.chunk_count =
               Cardinality({n \in 1..Len(StoredChunks) :
                               Get(StoredChunks[n], "doc_id", "none") = info.doc_id})
    /\ \A m, n \in 1..Len(StoredChunks) :
           (m # n /\ metaFile.kind = "dict")
               => StoredChunks[m].id # StoredChunks[n].id

----------------------------------------------------------------------------
(* C6 *)

\* C6: search never raises to its caller; on an empty or not-loaded corpus,
\* when both channels yield no candidates, or when a step of the query fails,
\* it returns the empty sequence
C6_SearchNeverRaises ==
    last.op = "search"
        => /\ ~last.raised
           /\ ~CorpusLoaded => last.results = <<>>
           /\ (CorpusLoaded /\ LastLexical.raised) => last.results = <<>>
           /\ (CorpusLoaded /\ ~LastLexical.raised
                  /\ LastLexical.results = <<>> /\ LastVector = <<>>)
                 => last.results = <<>>

\* a search over a loaded corpus in which the lexical scorer failed
C6_Witness ==
    /\ last.op = "search"
    /\ CorpusLoaded
    /\ LastLexical.raised
    /\ last.results = <<>>

----------------------------------------------------------------------------
(* C7 *)

\* exactly one channel answered the last search with no candidates
OneChannelEmpty ==
    /\ last.op = "search"
    /\ CorpusLoaded
    /\ ~LastLexical.raised
    /\ (LastLexical.results = <<>>) # (LastVector = <<>>)

\* the ranking of the channel that did answer, truncated to top_k
OtherChannelTop ==
    Take(IF LastLexical.results # <<>> THEN LastLexical.results ELSE LastVector,
         last.top_k)

\* C7: when exactly one channel yields no candidates over a loaded non-empty
\* corpus, search does not fail and returns the other channel's ranking, in
\* that channel's order and with its scores, truncated to top_k
C7_SingleChannelFallback ==
    OneChannelEmpty
        => /\ ~last.raised
           /\ Len(last.results) = Len(OtherChannelTop)
           /\ \A i \in 1..Len(OtherChannelTop) :
                  /\ last.results[i].score = OtherChannelTop[i][2]
                  /\ OtherChannelTop[i][1] < Len(metadata.chunks)
                  /\ last.results[i].text =
                         TextOf(metadata.chunks[OtherChannelTop[i][1] + 1])

----------------------------------------------------------------------------
(* C8 *)

\* C8 as stated: every ingest and every remove call invokes rebuild_index,
\* whatever the document processor answered
C8_RebuildUnconditional ==
    last.op \in IngestOps \cup {"remove_document"} => last.rebuilt

\* C8 amended: an ingest or remove call invokes rebuild_index exactly when the
\* document processor answered success, which is also what the call returns
C8_RebuildIffSuccess ==
    last.op \in IngestOps \cup {"remove_document"} => (last.rebuilt <=> last.ret)

\* a remove that succeeded and was followed by a rebuild
C8_Witness ==
    /\ last.op = "remove_document"
    /\ last.ret
    /\ last.rebuilt

----------------------------------------------------------------------------
(* C9 *)

\* C9: when rebuild_index returns false the index file and the in-memory
\* (index, metadata) pair are what they were before the call; when it returns
\* true the pair is the newly written index and the metadata it was built from
C9_FailedRebuildKeepsPair ==
    [][last'.rebuilt =>
         IF last'.rebuild_ret
         THEN /\ faiss_index' = indexFile'
              /\ metadata' = Meta(StoredDocumentsNext, StoredChunksNext)
              /\ Aligned(faiss_index', metadata')
         ELSE /\ indexFile' = indexFile
              /\ faiss_index' = faiss_index
              /\ metadata' = metadata
       ]_vars

\* a rebuild failed while an older index was loaded and the store had moved on
C9_Witness ==
    /\ last.rebuilt
    /\ ~last.rebuild_ret
    /\ faiss_index.kind = "index"
    /\ metadata.kind = "dict"
    /\ metadata.chunks # StoredChunks

----------------------------------------------------------------------------
(* C10 *)

\* C10: an ingest or remove call that returns false leaves the persisted
\* documents map and the persisted chunk sequence unchanged
C10_FailedCallKeepsStore ==
    [][(last'.op \in IngestOps \cup {"remove_document"} /\ ~last'.ret)
          => metaFile' = metaFile]_vars

\* an ingest of blank text failed on a store that holds documents
C10_Witness ==
    /\ last.op = "add_document_from_text"
    /\ ~last.ret
    /\ StoredChunks # <<>>

----------------------------------------------------------------------------
(* C11 *)

\* C11: with overlap >= chunk_size chunking reports a failure before its
\* first window, and an ingest of content that is empty after trimming
\* answers failure and stores no chunk
C11_ChunkingFailsFast ==
    /\ (fn.op = "chunk" /\ fn.pc # "call" /\ fn.overlap >= fn.size)
           => (fn.pc = "raised" /\ fn.steps = 0)
    /\ (fn.op = "process" /\ fn.pc = "done" /\ Strip(fn.content) = <<>>)
           => (~fn.ok /\ fn.meta = fn.before)

----------------------------------------------------------------------------
(* C12 *)

\* C12: with 0 <= overlap < chunk_size every window moves the start strictly
\* forward, and no window is produced once the start has passed the content
C12_ChunkingTerminates ==
    [][(fn.op = "chunk" /\ fn'.op = "chunk" /\ fn'.steps = fn.steps + 1
            /\ 0 <= fn.overlap /\ fn.overlap < fn.size)
          => /\ fn.start < Len(fn.content)
             /\ fn'.pc # "raised"
             /\ fn'.start > fn.start
      ]_vars

----------------------------------------------------------------------------
(* C13 *)

\* the (start, end) spans of the chunks emitted so far
Spans == [i \in 1..Len(fn.chunks) |->
              <<fn.chunks[i].start_pos, fn.chunks[i].end_pos>>]

\* C13: once chunking has returned, every span satisfies
\* 0 <= start < end <= len(content), spans come in increasing start order,
\* each span starts at or before the end of the one before, and every
\* position of the content lies in a span
C13_SpansReconstruct ==
    (fn.op = "chunk" /\ fn.pc = "done" /\ 0 <= fn.overlap
        /\ fn.overlap < fn.size /\ Strip(fn.content) # <<>>)
        => /\ \A i \in 1..Len(Spans) :
                  /\ 0 <= Spans[i][1]
                  /\ Spans[i][1] < Spans[i][2]
                  /\ Spans[i][2] <= Len(fn.content)
           /\ \A i \in 1..(Len(Spans) - 1) :
                  /\ Spans[i][1] < Spans[i + 1][1]
                  /\ Spans[i + 1][1] <= Spans[i][2]
           /\ \A p \in 0..(Len(fn.content) - 1) :
                  \E i \in 1..Len(Spans) : Spans[i][1] <= p /\ p < Spans[i][2]

----------------------------------------------------------------------------
(* C14 *)

\* C14: the chunks emitted for a document carry the ordinals 0, 1, ..., n-1 in
\* emission order, each chunk id is the doc_id joined with the ordinal, and a
\* window that is empty after trimming consumes no ordinal
C14_DenseOrdinals ==
    fn.op = "chunk"
        => /\ fn.ordinal = Len(fn.chunks)
           /\ \A i \in 1..Len(fn.chunks) :
                  /\ fn.chunks[i].chunk_id = i - 1
                  /\ fn.chunks[i].id = <<fn.chunks[i].doc_id, i - 1>>

\* chunking returned two chunks after discarding a window in between
C14_Witness ==
    /\ fn.op = "chunk"
    /\ fn.pc = "done"
    /\ Len(fn.chunks) = 2
    /\ fn.steps = 3
    /\ fn.chunks[2].start_pos > fn.chunks[1].end_pos

----------------------------------------------------------------------------
(* C15 *)

\* C15: one more occurrence of a query term in a chunk, all else fixed, never
\* decreases the lexical score of that chunk
C15_Bm25Monotone ==
    (fn.op = "bm25" /\ fn.pc = "done") => ~ScoreGT(fn.before, fn.after)

----------------------------------------------------------------------------
(* C16 *)

\* the fusion was called on lexical [A, B, C] and vector [B, A, D]
WorkedExample ==
    /\ fn.op = "fuse"
    /\ fn.pc = "done"
    /\ Len(fn.bm25_results) = 3
    /\ Len(fn.vector_results) = 3
    /\ fn.vector_results[1][1] = fn.bm25_results[2][1]
    /\ fn.vector_results[2][1] = fn.bm25_results[1][1]
    /\ \A r \in 1..3 : fn.vector_results[3][1] # fn.bm25_results[r][1]

\* the chunk indices of a result list, in order
Order(results) == [r \in 1..Len(results) |-> results[r][1]]

----------------------------------------------------------------------------
(* C17 *)

\* C17: the fused list is sorted by descending fused score, and two
\* candidates of the lexical list with equal fused score keep the order they
\* have in the lexical list
C17_FusionTieOrder ==
    (fn.op = "fuse" /\ fn.pc = "done")
        => /\ \A r \in 1..(Len(fn.out) - 1) :
                  ~ScoreGT(fn.out[r + 1][2], fn.out[r][2])
           /\ \A r, q \in 1..Len(fn.out) :
                  (/\ r < q
                   /\ ScoreEQ(fn.out[r][2], fn.out[q][2])
                   /\ RankIn(fn.bm25_results, fn.out[r][1]) <= Len(fn.bm25_results)
                   /\ RankIn(fn.bm25_results, fn.out[q][1]) <= Len(fn.bm25_results))
                      => RankIn(fn.bm25_results, fn.out[r][1])
                             < RankIn(fn.bm25_results, fn.out[q][1])

----------------------------------------------------------------------------
(* C18 *)

\* whether the sequence a is b with some elements left out
RECURSIVE IsSubseq(_, _)
IsSubseq(a, b) ==
    IF a = <<>> THEN TRUE
    ELSE IF b = <<>> THEN FALSE
    ELSE IF Head(a) = Head(b) THEN IsSubseq(Tail(a), Tail(b))
    ELSE IsSubseq(a, Tail(b))

\* the configured synonyms of a word
SynonymsOf(w) == IF w \in DOMAIN synonyms THEN synonyms[w] ELSE <<>>

\* the tokens of the last query, and of its expansion
QueryTokens == Words(Lower(last.arg))

ExpandedTokens == Words(expand_query_with_synonyms(last.arg))

\* C18: the results of a search are those of the lexical channel run on the
\* expanded query combined with the vector channel run on the query as given;
\* the expanded query keeps the tokens of the query in order and adds nothing
\* but the configured synonyms of those tokens
C18_ExpansionLexicalOnly ==
    last.op = "search"
        => /\ (CorpusLoaded /\ ~LastLexical.raised)
                  => last.results =
                         HydrateAll(metadata,
                                    Take(Combined(LastLexical.results, LastVector),
                                         last.top_k))
           /\ IsSubseq(QueryTokens, ExpandedTokens)
           /\ \A n \in 1..Len(ExpandedTokens) :
                  \E m \in 1..Len(QueryTokens) :
                      \/ ExpandedTokens[n] = QueryTokens[m]
                      \/ Count(SynonymsOf(QueryTokens[m]), ExpandedTokens[n]) > 0
           /\ Len(ExpandedTokens) =
                  Len(QueryTokens)
                  + SumSeq([m \in 1..Len(QueryTokens) |->
                               Len(SynonymsOf(QueryTokens[m]))])

\* a search whose query has a synonym, answered by both channels: a chunk
\* holding only the synonym gets a lexical score other than 0
C18_Witness ==
    /\ last.op = "search"
    /\ ExpandedTokens # QueryTokens
    /\ CorpusLoaded
    /\ LastVector # <<>>
    /\ ~LastLexical.raised
    /\ \E r \in 1..Len(LastLexical.results) :
           /\ ~ScoreEQ(LastLexical.results[r][2], Zero)
           /\ Count(Words(ChunkText(metadata.chunks[LastLexical.results[r][1] + 1])),
                    <<"a">>) = 0

----------------------------------------------------------------------------
(* C19 *)

\* the canonical store equivalent to a legacy one
Canonical(meta) ==
    IF meta.kind = "list" THEN DictFile(EmptyMap, meta.chunks) ELSE meta

\* C19: on a store persisted as a bare chunk array, engine load, ingest,
\* remove and rebuild_index give what they give on the canonical store
\* {documents: {}, chunks: that array}, and a rewrite persists the canonical
\* shape
C19_LegacyAsCanonical ==
    [][metaFile.kind = "list" =>
         /\ load_index(indexFile, metaFile) = load_index(indexFile, Canonical(metaFile))
         /\ last'.op = "add_document_from_text" =>
                LET name == TextFileName(last'.arg)
                    r == process_single_document(name, docFiles'[name].content,
                                                 last'.arg, Canonical(metaFile))
                IN  /\ last'.ret = r.ok
                    /\ metaFile' = r.meta
         /\ last'.op = "remove_document" =>
                last'.ret = dp_remove_document(last'.arg, Canonical(metaFile),
                                               docFiles).ok
         /\ last'.op = "rebuild_index" =>
                last'.ret = rebuild_index(faiss_index, metadata, indexFile,
                                          Canonical(metaFile), providerUp).ok
         /\ metaFile' # metaFile => metaFile'.kind = "dict"
      ]_vars

----------------------------------------------------------------------------
(* C20 *)

\* C20: while metadata.json is malformed, the engine load does not end as it
\* does without any index, list does not answer as on an empty store, a
\* search does not answer the empty list without a failure, and no call
\* rewrites the file
C20_MalformedFailsFast ==
    [][metaFile.kind = "malformed" =>
         /\ load_index(indexFile, metaFile) # load_index(NoFile, NoFile)
         /\ list_documents(metaFile) # list_documents(NoFile)
         /\ last'.op = "search" => (last'.raised \/ last'.results # <<>>)
         /\ metaFile' = metaFile
      ]_vars

\* the part of C20 that does hold: no call rewrites a malformed metadata.json
MalformedNeverRewritten ==
    [][metaFile.kind = "malformed" => metaFile' = metaFile]_vars

----------------------------------------------------------------------------
(* C21 *)

\* the scoring weights of a configuration do not sum to 1.0
WeightsOff(config) == config.bm25_weight + config.vector_weight # 10

\* C21: constructing the facade with weights that do not sum to 1.0 raises,
\* and update_config with such weights returns false and leaves the active
\* configuration, the document processor and the search engine as they were
C21_BadWeightsRejected ==
    /\ (fn.op = "config" /\ fn.pc # "call" /\ WeightsOff(fn.given))
           => fn.pc = "raised"
    /\ (fn.op = "config" /\ fn.pc = "updated" /\ WeightsOff(fn.new))
           => /\ ~fn.ret
              /\ fn.facade.config = fn.given
              /\ fn.facade.document_processor = 1
              /\ fn.facade.search_engine = 1

\* update_config was refused for its weights alone, on a facade built from a
\* different, valid configuration
C21_Witness ==
    /\ fn.op = "config"
    /\ fn.pc = "updated"
    /\ WeightsOff(fn.new)
    /\ fn.new.gemini_api_key = "key"
    /\ ~fn.ret
    /\ fn.facade.config = fn.given

----------------------------------------------------------------------------
(* C22 *)

\* thread i ran a search through all its reads
SearchedThrough(i) ==
    /\ fn.t[i].prog = "search"
    /\ fn.t[i].pc = "done"
    /\ fn.t[i].ret

\* C22: the reads of self.metadata and self.faiss_index made by one search
\* all come from one completed build: the same metadata at every read, and
\* the index built from it
C22_NoHalfSwappedPair ==
    fn.op = "threads"
        => \A i \in 1..2 :
               SearchedThrough(i)
                   => /\ fn.t[i].seen_bm25 = fn.t[i].seen_vector
                      /\ fn.t[i].seen_vector = fn.t[i].seen_hydrate
                      /\ fn.t[i].seen_index.kind = "index"
                      /\ Aligned(fn.t[i].seen_index, fn.t[i].seen_vector)

----------------------------------------------------------------------------
(* C23 *)

\* thread i is inside an ingest or a rebuild
Mutating(i) ==
    /\ fn.t[i].prog \in {"ingest", "rebuild"}
    /\ fn.t[i].pc \notin {"start", "done"}

\* C23: at most one ingest, remove or rebuild is in progress at a time, and
\* when two ingests of different documents into a new store have both
\* returned true both documents and all their chunks are in metadata.json
C23_SingleWriter ==
    fn.op = "threads"
        => /\ ~(Mutating(1) /\ Mutating(2))
           /\ (/\ fn.fresh
               /\ \A i \in 1..2 :
                      /\ fn.t[i].prog = "ingest"
                      /\ fn.t[i].pc \in {"rebuild", "set_index", "set_metadata",
                                         "done"}
                      /\ fn.t[i].ret)
                  => \A i \in 1..2 :
                         LET d == DocIdOf[fn.t[i].arg]
                         IN  /\ d \in DOMAIN StoredDocuments
                             /\ Others(StoredChunks, d) # StoredChunks
                             /\ Len(StoredChunks) - Len(Others(StoredChunks, d))
                                    = Len(chunk_document(ContentOf(fn.t[i].arg), d))

\* the second half of C23 on its own: no update of metadata.json is lost
NoLostUpdate ==
    fn.op = "threads"
        => ((/\ fn.fresh
             /\ \A i \in 1..2 : fn.t[i].prog = "ingest" /\ fn.t[i].ret)
                => \A i \in 1..2 : DocIdOf[fn.t[i].arg] \in DOMAIN StoredDocuments)

----------------------------------------------------------------------------
(* C24 *)

\* the query terms the lexical scorer got in the last search
LastQueryTerms == Words(Lower(expand_query_with_synonyms(last.arg)))

\* the number of loaded chunks whose text holds the term
ChunksHolding(term) ==
    Cardinality({i \in 1..Len(metadata.chunks) :
                    Count(Words(ChunkText(metadata.chunks[i])), term) > 0})

\* C24: in every search over a loaded corpus the document frequency the
\* lexical scorer uses for a query term is the number of chunks holding the
\* term, so it is at most N and the scoring ends without an error
C24_DocFreqIsChunkCount ==
    (last.op = "search" /\ CorpusLoaded)
        => /\ \A j \in 1..Len(LastQueryTerms) :
                  /\ DocFreq(ChunkTokens(metadata.chunks), LastQueryTerms,
                             LastQueryTerms[j])
                         = ChunksHolding(LastQueryTerms[j])
                  /\ DocFreq(ChunkTokens(metadata.chunks), LastQueryTerms,
                             LastQueryTerms[j])
                         <= Len(metadata.chunks)
           /\ ~LastLexical.raised

----------------------------------------------------------------------------
(* C25, C26 *)

\* a lexical ranking call has returned
LexDone == fn.op = "lex" /\ fn.pc = "done" /\ ~fn.raised

\* the terms of the query of the call
LexTerms == Words(Lower(fn.query))

\* the chunk at 0-based index idx holds at least one query term
HoldsTerm(idx) ==
    \E j \in 1..Len(LexTerms) :
        Count(Words(ChunkText(fn.chunks[idx + 1])), LexTerms[j]) > 0

\* the score the scorer computes for the chunk at 0-based index idx
LexScore(idx) ==
    Bm25Scores(ChunkTokens(fn.chunks), LexTerms)[idx + 1][2]

\* the chunk indices of the returned list
LexReturned == {fn.out[r][1] : r \in 1..Len(fn.out)}

\* C25: the lexical list is non-increasing in score, equal scores keep the
\* corpus order, the list is the head of the whole ranking cut to top_k, a
\* chunk holding no query term is kept with score 0, and a query without
\* terms gives the empty list
C25_LexicalOrder ==
    LexDone =>
        /\ LexTerms = <<>> => fn.out = <<>>
        /\ LexTerms # <<>> => Len(fn.out) = Min(fn.top_k, Len(fn.chunks))
        /\ Cardinality(LexReturned) = Len(fn.out)
        /\ LexReturned \subseteq 0..(Len(fn.chunks) - 1)
        /\ \A r \in 1..Len(fn.out) : fn.out[r][2] = LexScore(fn.out[r][1])
        /\ \A r \in 1..(Len(fn.out) - 1) :
              /\ ~ScoreGT(fn.out[r + 1][2], fn.out[r][2])
              /\ ScoreEQ(fn.out[r + 1][2], fn.out[r][2])
                     => fn.out[r][1] < fn.out[r + 1][1]
        /\ \A i \in (0..(Len(fn.chunks) - 1)) \ LexReturned :
              \A r \in 1..Len(fn.out) :
                  /\ ~ScoreGT(LexScore(i), fn.out[r][2])
                  /\ ScoreEQ(LexScore(i), fn.out[r][2]) => fn.out[r][1] < i
        /\ \A r \in 1..Len(fn.out) :
              ~HoldsTerm(fn.out[r][1]) => fn.out[r][2] = Zero
        /\ (LexTerms # <<>> /\ Len(fn.chunks) <= fn.top_k)
               => LexReturned = 0..(Len(fn.chunks) - 1)

\* a ranking cut to top_k with a strict step, a chunk that holds no query
\* term, and a tie between the last chunk returned and a chunk cut off
C25_Witness ==
    /\ LexDone
    /\ Len(fn.out) < Len(fn.chunks)
    /\ \E r \in 1..(Len(fn.out) - 1) : ScoreGT(fn.out[r][2], fn.out[r + 1][2])
    /\ \E i \in (0..(Len(fn.chunks) - 1)) \ LexReturned :
           ScoreEQ(fn.out[Len(fn.out)][2], LexScore(i))
    /\ \E r \in 1..Len(fn.out) : ~HoldsTerm(fn.out[r][1])

\* C26: in the lexical list a chunk that holds a query term is never ranked
\* below a chunk that holds none
C26_MatchNeverBelowNoMatch ==
    LexDone =>
        \A r \in 1..Len(fn.out) : \A s \in (r + 1)..Len(fn.out) :
            ~(~HoldsTerm(fn.out[r][1]) /\ HoldsTerm(fn.out[s][1]))

----------------------------------------------------------------------------
(* C27 *)

\* the chunk indices a result list holds
IndicesOf(results) == {results[r][1] : r \in 1..Len(results)}

\* the 1-based position of idx in a result list, len(list) + 1 when absent
PositionIn(results, idx) ==
    IF idx \in IndicesOf(results)
    THEN CHOOSE r \in 1..Len(results) : results[r][1] = idx
    ELSE Len(results) + 1

\* 1/(k + rank_lexical) + 1/(k + rank_vector) as a fraction
FusedScore(rank_lexical, rank_vector) ==
    <<(RRF_K + rank_lexical) + (RRF_K + rank_vector),
      (RRF_K + rank_lexical) * (RRF_K + rank_vector)>>

\* C27: the fused list holds every chunk index of either input list exactly
\* once, each with the score 1/(k + rank_lexical) + 1/(k + rank_vector),
\* where the rank of an index a list does not hold is the length of that
\* list plus one
C27_FusionKeepsEveryCandidate ==
    (fn.op = "fuse" /\ fn.pc = "done")
        => /\ IndicesOf(fn.out)
                  = IndicesOf(fn.bm25_results) \cup IndicesOf(fn.vector_results)
           /\ Len(fn.out) = Cardinality(IndicesOf(fn.out))
           /\ \A r \in 1..Len(fn.out) :
                  ScoreEQ(fn.out[r][2],
                          FusedScore(PositionIn(fn.bm25_results, fn.out[r][1]),
                                     PositionIn(fn.vector_results, fn.out[r][1])))

\* a fusion with a candidate on both lists, one only on the lexical list
\* and one only on the vector list
C27_Witness ==
    /\ fn.op = "fuse"
    /\ fn.pc = "done"
    /\ IndicesOf(fn.bm25_results) \cap IndicesOf(fn.vector_results) # {}
    /\ IndicesOf(fn.bm25_results) \ IndicesOf(fn.vector_results) # {}
    /\ IndicesOf(fn.vector_results) \ IndicesOf(fn.bm25_results) # {}
    /\ Len(fn.bm25_results) # Len(fn.vector_results)

----------------------------------------------------------------------------
(* C28 *)

\* C28: with 0 <= chunk_overlap < chunk_size, every chunk emitted spans at
\* most chunk_size characters, and its end is either the raw cut at
\* start + chunk_size or the position right after a sentence-terminal
\* character that lies inside the window, within its last 100 characters
C28_SpanWithinWindow ==
    (fn.op = "chunk" /\ fn.pc \in {"loop", "done"} /\ 0 <= fn.overlap
        /\ fn.overlap < fn.size)
        => \A i \in 1..Len(Spans) :
               LET start == Spans[i][1]
                   end == Spans[i][2]
               IN  /\ end - start <= fn.size
                   /\ \/ end = start + fn.size
                      \/ /\ start <= end - 1
                         /\ end - 1 < start + fn.size
                         /\ start + fn.size - SnapWindow <= end - 1
                         /\ ~IndexError(fn.content, end - 1)
                         /\ At(fn.content, end - 1) \in SentenceEnds

----------------------------------------------------------------------------
(* C29 *)

\* the entries of combined_results[:top_k] whose index is a chunk position
Hydrated ==
    SelectSeq(fn.ranked, LAMBDA e : e[1] < Len(fn.engine.metadata.chunks))

\* the results are those of the chunks at the returned indices: no index
\* twice, and text, doc_id and title of the chunk at each index
ResultsOfReturnedChunks ==
    /\ Len(fn.out) = Len(Hydrated)
    /\ \A r, q \in 1..Len(Hydrated) : r # q => Hydrated[r][1] # Hydrated[q][1]
    /\ \A r \in 1..Len(fn.out) :
           LET chunk == fn.engine.metadata.chunks[Hydrated[r][1] + 1]
           IN  /\ fn.out[r].text = chunk.text
               /\ fn.out[r].metadata.doc_id = chunk.doc_id
               /\ fn.out[r].source
                      = fn.engine.metadata.documents[chunk.doc_id].title
               /\ fn.out[r].score = Hydrated[r][2]

\* C29: search returns at most top_k results, by non-increasing score, no
\* chunk twice, each with the text, doc_id and title of the chunk at the
\* returned index of the metadata the engine loaded
C29_SearchResults ==
    (fn.op = "search" /\ fn.pc = "done")
        => /\ Len(fn.out) <= fn.top_k
           /\ \A r \in 1..(Len(fn.out) - 1) :
                  ~ScoreGT(fn.out[r + 1].score, fn.out[r].score)
           /\ ResultsOfReturnedChunks

\* a search cut to top_k that returns chunks of two documents by strictly
\* decreasing score
C29_Witness ==
    /\ fn.op = "search"
    /\ fn.pc = "done"
    /\ fn.top_k = 2
    /\ Len(fn.out) = 2
    /\ Len(fn.engine.metadata.chunks) > 2
    /\ ScoreGT(fn.out[1].score, fn.out[2].score)
    /\ fn.out[1].metadata.doc_id # fn.out[2].metadata.doc_id

----------------------------------------------------------------------------
(* C30 *)

\* the chunks a step put after the chunks stored before it
AppendedChunks ==
    SubSeq(StoredChunksNext, Len(StoredChunks) + 1, Len(StoredChunksNext))

\* C30: an ingest that returns true only appends: the chunk sequence stored
\* before it is a prefix of the one stored after it, and the entry of every
\* document other than the ingested one is as it was
C30_IngestOnlyAppends ==
    [][(last'.op \in IngestOps /\ last'.ret)
          => /\ Len(StoredChunks) <= Len(StoredChunksNext)
             /\ SubSeq(StoredChunksNext, 1, Len(StoredChunks)) = StoredChunks
             /\ \A d \in DOMAIN StoredDocuments :
                    (\A n \in 1..Len(AppendedChunks) :
                         AppendedChunks[n].doc_id # d)
                        => /\ d \in DOMAIN StoredDocumentsNext
                           /\ StoredDocumentsNext[d] = StoredDocuments[d]
      ]_vars

\* the URL body was ingested after another document: its chunks come last
C30_Witness ==
    /\ last.op = "add_document_from_url"
    /\ last.ret
    /\ Cardinality(DOMAIN StoredDocuments) = 2
    /\ Len(StoredChunks) >= 2
    /\ StoredChunks[1].doc_id # "d2"
    /\ StoredChunks[Len(StoredChunks)].doc_id = "d2"

====
